---- MODULE Spec2Model ----
(***************************************************************************)
(* The batch pipeline controller of clearcut: the reducer of               *)
(* src/src/App.reducer.ts driven by the App component of                   *)
(* src/unnamed/part_001 (handleStart's sequential loop, the buttons and    *)
(* the isCancellingRef effect).                                            *)
(*                                                                         *)
(* `state` is the reducer state as the fold of every action dispatched so  *)
(* far; `rendered` is the state of the last committed render, which is     *)
(* what the user sees and what decides which handler can be invoked.       *)
(* A dispatch made in a click handler is rendered, and its effect run,     *)
(* before the handler's event ends; a dispatch made by the async loop is   *)
(* rendered later (Render) and its passive effect later still (Effect).    *)
(*                                                                         *)
(* The services of src/unnamed/part_000 that the loop awaits are modelled  *)
(* on their own: applyMask step by step on a canvas (CompositorSpec) and   *)
(* createFileName on a file path (NamingSpec).                             *)
(*                                                                         *)
(* The App component of src/src/App.tsx, which keeps the same state in     *)
(* useState hooks and a cancelledRef, is modelled by UseStateSpec; there a *)
(* state update is taken to be on screen before the next user event.       *)
(***************************************************************************)
EXTENDS Integers, Sequences, FiniteSets, TLC

\* ------------------------------------------------------------------ bounds
MaxFiles == 3
MaxIds == 3
MaxRuns == 2
MaxBatch == 4
MaxDim == 2
MaxNameLen == 4
MaxAppFiles == 2
MaxAppStarts == 2

VARIABLES
    state,            \* AppState, the fold of every dispatched action
    rendered,         \* AppState of the last committed render
    isCancellingRef,  \* isCancellingRef.current
    pc,               \* the await handleStart is suspended at, or "idle"
    i,                \* handleStart's loop index
    loopFiles,        \* the files handleStart's closure captured
    nextId,           \* number of ids crypto.randomUUID() has handed out
    runs,             \* number of handleStart calls so far
    lastAct,          \* history: name of the step taken last
    exit,             \* history: how the latest loop left, or "running"
    failed,           \* history: <<index, step>> that threw in the latest run
    cancelClicked,    \* history: CANCEL_BUTTON_CLICKED accepted in the latest run
    emitted,          \* history: last status the latest loop dispatched per id
    photo,            \* applyMask: the loaded photo (size, alpha of a pixel)
    mask,             \* applyMask: the loaded mask (size, colour of a pixel)
    canvas,           \* applyMask: the canvas and the drawImage calls made on it
    applyPc,          \* applyMask: the statement applyMask has reached
    blob,             \* applyMask: what canvas.toBlob handed back
    fileName,         \* createFileName: its argument, a sequence of characters
    newFileName,      \* createFileName: its result
    app,              \* App.tsx: the values of its useState hooks
    cancelledRef,     \* App.tsx: cancelledRef.current
    loops,            \* App.tsx: the handleStart calls suspended at an await
    uuids,            \* App.tsx: number of ids crypto.randomUUID() has handed out
    starts            \* App.tsx: number of handleStart calls so far

vars == <<state, rendered, isCancellingRef, pc, i, loopFiles, nextId, runs,
          lastAct, exit, failed, cancelClicked, emitted,
          photo, mask, canvas, applyPc, blob, fileName, newFileName,
          app, cancelledRef, loops, uuids, starts>>

\* the variables of the services of part_000
Services == <<photo, mask, canvas, applyPc, blob, fileName, newFileName>>

\* the variables of the App component of src/src/App.tsx
UseState == <<app, cancelledRef, loops, uuids, starts>>

\* ------------------------------------------------------------------ types
NoImage == [width |-> 0, height |-> 0]
NoCanvas == [width |-> 0, height |-> 0]
NoBlob == [type |-> "none"]
NoName == <<"undefined">>
FileStatus == {"pending", "processing", "completed", "error"}

Terminal == {"completed", "error"}

\* processingRequest?: undefined
Undefined == [status |-> "undefined"]

\* outputFolder?: undefined
NoFolder == "undefined"

Folders == {"out"}

initialState == [files |-> <<>>, isDragging |-> FALSE,
                 outputFolder |-> NoFolder, processingRequest |-> Undefined]

\* ---------------------------------------------------------------- helpers
\* mutant: the new map holds the updated entry only
updateMap_DropsOthers(map, key, value) == [k \in {key} |-> value]

updateMap(map, key, value) ==
    [k \in (DOMAIN map) \cup {key} |-> IF k = key THEN value ELSE map[k]]

\* Math.round(num / den * 100) for num >= 0, den > 0 (halves round up)
RoundPercent(num, den) == (200 * num + den) \div (2 * den)

Range(seq) == {seq[k] : k \in 1..Len(seq)}

\* ---------------------------------------------------------------- reducer
FILES_SELECTED(s, newIds) == [s EXCEPT !.files = s.files \o newIds]

REMOVE_FILE_BUTTON_CLICKED(s, index) ==
    [s EXCEPT !.files =
        SubSeq(s.files, 1, index) \o SubSeq(s.files, index + 2, Len(s.files))]

CLEAR_FILES_BUTTON_CLICKED(s) ==
    [s EXCEPT !.files = <<>>, !.processingRequest = Undefined]

OUTPUT_FOLDER_SELECTED(s, folder) == [s EXCEPT !.outputFolder = folder]

DRAG_ENTERED(s) == [s EXCEPT !.isDragging = TRUE]

DRAG_LEFT(s) == [s EXCEPT !.isDragging = FALSE]

\* mutant: the status map is created without its entries
REMOVE_BACKGROUND_BUTTON_CLICKED_EmptyMap(s) ==
    [s EXCEPT !.processingRequest =
        [status |-> "processing",
         progress |-> 0,
         processedFiles |-> <<>>,
         currentProcessingIndex |-> 0,
         isCancelling |-> FALSE]]

REMOVE_BACKGROUND_BUTTON_CLICKED(s) ==
    [s EXCEPT !.processingRequest =
        [status |-> "processing",
         progress |-> 0,
         processedFiles |-> [id \in Range(s.files) |-> "pending"],
         currentProcessingIndex |-> 0,
         isCancelling |-> FALSE]]

\* mutant: progress counts completed items only
FILE_STATUS_CHANGED_CountsCompletedOnly(s, fileId, status) ==
    IF s.processingRequest = Undefined THEN s
    ELSE LET updatedProcessedFiles ==
                 updateMap(s.processingRequest.processedFiles, fileId, status)
             completedCount ==
                 Cardinality({id \in DOMAIN updatedProcessedFiles :
                                  updatedProcessedFiles[id] = "completed"})
             totalFilesForStatus == Len(s.files)
             newProgress ==
                 IF totalFilesForStatus > 0
                 THEN RoundPercent(completedCount, totalFilesForStatus)
                 ELSE 0
         IN [s EXCEPT !.processingRequest.processedFiles = updatedProcessedFiles,
                      !.processingRequest.progress = newProgress]

FILE_STATUS_CHANGED(s, fileId, status) ==
    IF s.processingRequest = Undefined THEN s
    ELSE LET updatedProcessedFiles ==
                 updateMap(s.processingRequest.processedFiles, fileId, status)
             completedCount ==
                 Cardinality({id \in DOMAIN updatedProcessedFiles :
                                  updatedProcessedFiles[id] \in Terminal})
             totalFilesForStatus == Len(s.files)
             newProgress ==
                 IF totalFilesForStatus > 0
                 THEN RoundPercent(completedCount, totalFilesForStatus)
                 ELSE 0
         IN [s EXCEPT !.processingRequest.processedFiles = updatedProcessedFiles,
                      !.processingRequest.progress = newProgress]

\* mutant: the index is stored one-based
PROCESSING_PROGRESS_CHANGED_OneBased(s, index) ==
    IF s.processingRequest = Undefined THEN s
    ELSE LET totalFilesForProgress == Len(s.files)
             progressForIndex ==
                 IF totalFilesForProgress > 0
                 THEN RoundPercent(index, totalFilesForProgress)
                 ELSE 0
         IN [s EXCEPT !.processingRequest.currentProcessingIndex = index + 1,
                      !.processingRequest.progress = progressForIndex]

PROCESSING_PROGRESS_CHANGED(s, index) ==
    IF s.processingRequest = Undefined THEN s
    ELSE LET totalFilesForProgress == Len(s.files)
             progressForIndex ==
                 IF totalFilesForProgress > 0
                 THEN RoundPercent(index, totalFilesForProgress)
                 ELSE 0
         IN [s EXCEPT !.processingRequest.currentProcessingIndex = index,
                      !.processingRequest.progress = progressForIndex]

\* mutant: no test for a missing run record
PROCESSING_COMPLETED_NoGuard(s) ==
    [s EXCEPT !.processingRequest =
        [status |-> "success",
         progress |-> 100,
         processedFiles |-> <<>>,
         currentProcessingIndex |-> 0,
         isCancelling |-> FALSE]]

\* mutant: a run with a failed item is reported as a failed run
PROCESSING_COMPLETED_ErrorIfAnyFailed(s) ==
    IF s.processingRequest = Undefined THEN s
    ELSE [s EXCEPT !.processingRequest.status =
                       IF \E id \in DOMAIN s.processingRequest.processedFiles :
                              s.processingRequest.processedFiles[id] = "error"
                       THEN "error" ELSE "success",
                   !.processingRequest.progress = 100]

\* mutant: the final progress is derived from the index, not set to 100
PROCESSING_COMPLETED_ProgressFromIndex(s) ==
    IF s.processingRequest = Undefined THEN s
    ELSE [s EXCEPT !.processingRequest.status = "success",
                   !.processingRequest.progress =
                       RoundPercent(s.processingRequest.currentProcessingIndex,
                                    Len(s.files))]

PROCESSING_COMPLETED(s) ==
    IF s.processingRequest = Undefined THEN s
    ELSE [s EXCEPT !.processingRequest.status = "success",
                   !.processingRequest.progress = 100]

\* mutant: the button toggles the flag
CANCEL_BUTTON_CLICKED_Toggles(s) ==
    IF s.processingRequest = Undefined THEN s
    ELSE [s EXCEPT !.processingRequest.isCancelling =
                       ~s.processingRequest.isCancelling]

CANCEL_BUTTON_CLICKED(s) ==
    IF s.processingRequest = Undefined THEN s
    ELSE [s EXCEPT !.processingRequest.isCancelling = TRUE]

\* mutant: a cancelled run is kept and reported as finished
CANCEL_COMPLETE_KeepsRecord(s) ==
    IF s.processingRequest = Undefined THEN s
    ELSE [s EXCEPT !.processingRequest.status = "success"]

CANCEL_COMPLETE(s) == [s EXCEPT !.processingRequest = Undefined]

\* mutant: reset returns the initial state, dropping the output folder
RESET_BUTTON_CLICKED_ToInitialState(s) == initialState

RESET_BUTTON_CLICKED(s) ==
    [s EXCEPT !.files = <<>>, !.processingRequest = Undefined]

\* ------------------------------------------------- values the view derives
isProcessing(s) ==
    s.processingRequest # Undefined /\ s.processingRequest.status = "processing"

\* processingRequest?.processedFiles ?? new Map()
processedFiles(s) ==
    IF s.processingRequest = Undefined THEN <<>>
    ELSE s.processingRequest.processedFiles

\* processingRequest?.isCancelling ?? false
isCancelling(s) ==
    s.processingRequest # Undefined /\ s.processingRequest.isCancelling

isComplete(s) ==
    /\ Len(s.files) # 0
    /\ DOMAIN processedFiles(s) # {}
    /\ \A id \in DOMAIN processedFiles(s) : processedFiles(s)[id] \in Terminal

getProgress(s) ==
    IF isComplete(s) THEN 100
    ELSE IF s.processingRequest = Undefined THEN 0
    ELSE s.processingRequest.progress

\* processedFiles.get(file.id) || "pending", the status a list row shows
rowStatus(s, id) ==
    IF id \in DOMAIN processedFiles(s) THEN processedFiles(s)[id] ELSE "pending"

\* ------------------------------------------------------------ handleStart
\* the loop's results
Cancels == {"cancelHead", "cancelMask", "cancelApply", "cancelSave", "cancelPost"}

\* mutant: the loop drops the run record when it finishes
PostLoop_DiscardsOnCompletion(s, k, ref, em, how) ==
    [st |-> CANCEL_COMPLETE(s), pc |-> "idle", i |-> k, em |-> em,
     exit |-> IF ref THEN how ELSE "completed"]

\* mutant: processingCompleted() whatever the flag says
PostLoop_AlwaysCompleted(s, k, ref, em, how) ==
    [st |-> PROCESSING_COMPLETED(s), pc |-> "idle", i |-> k, em |-> em,
     exit |-> IF ref THEN how ELSE "completed"]

\* after the loop: processingCompleted() unless the flag is set
PostLoop(s, k, ref, em, how) ==
    IF ~ref
    THEN [st |-> PROCESSING_COMPLETED(s), pc |-> "idle", i |-> k, em |-> em,
          exit |-> "completed"]
    ELSE [st |-> CANCEL_COMPLETE(s), pc |-> "idle", i |-> k, em |-> em,
          exit |-> how]

\* a checkpoint that saw the flag: dispatch(cancelComplete()); break
Break(s, k, ref, em, how) == PostLoop(CANCEL_COMPLETE(s), k, ref, em, how)

\* mutant: the item is not marked processing before its mask request
LoopHead_SkipsProcessing(s, k, fs, ref, em) ==
    IF k >= Len(fs) THEN PostLoop(s, k, ref, em, "cancelPost")
    ELSE IF ref THEN Break(s, k, ref, em, "cancelHead")
    ELSE [st |-> PROCESSING_PROGRESS_CHANGED(s, k),
          pc |-> "generateMask", i |-> k, em |-> em, exit |-> "running"]

\* mutant: no checkpoint at the head of an iteration
LoopHead_NoHeadCheck(s, k, fs, ref, em) ==
    IF k >= Len(fs) THEN PostLoop(s, k, ref, em, "cancelPost")
    ELSE [st |-> FILE_STATUS_CHANGED(PROCESSING_PROGRESS_CHANGED(s, k),
                                     fs[k + 1], "processing"),
          pc |-> "generateMask", i |-> k,
          em |-> updateMap(em, fs[k + 1], "processing"),
          exit |-> "running"]

\* the loop from the head of iteration k to its next await, or to its end
LoopHead(s, k, fs, ref, em) ==
    IF k >= Len(fs) THEN PostLoop(s, k, ref, em, "cancelPost")
    ELSE IF ref THEN Break(s, k, ref, em, "cancelHead")
    ELSE [st |-> FILE_STATUS_CHANGED(PROCESSING_PROGRESS_CHANGED(s, k),
                                     fs[k + 1], "processing"),
          pc |-> "generateMask", i |-> k,
          em |-> updateMap(em, fs[k + 1], "processing"),
          exit |-> "running"]

\* mutant: a failed item ends the batch
Catch_AbortsRun(s, k, fs, ref, em) ==
    PostLoop(FILE_STATUS_CHANGED(s, fs[k + 1], "error"), k + 1, ref,
             updateMap(em, fs[k + 1], "error"), "cancelPost")

\* mutant: after a failure the loop skips the next item
Catch_SkipsNext(s, k, fs, ref, em) ==
    LoopHead(FILE_STATUS_CHANGED(s, fs[k + 1], "error"), k + 2, fs, ref,
             updateMap(em, fs[k + 1], "error"))

\* mutant: a failed item is reported as completed
Catch_MarksCompleted(s, k, fs, ref, em) ==
    LoopHead(FILE_STATUS_CHANGED(s, fs[k + 1], "completed"), k + 1, fs, ref,
             updateMap(em, fs[k + 1], "completed"))

\* mutant: a failure fails the run and leaves the loop
Catch_FailsRun(s, k, fs, ref, em) ==
    [st |-> [FILE_STATUS_CHANGED(s, fs[k + 1], "error")
                 EXCEPT !.processingRequest.status = "error"],
     pc |-> "idle", i |-> k, em |-> updateMap(em, fs[k + 1], "error"),
     exit |-> "threw"]

\* mutant: a failed item is marked error and then tried again
Catch_RetriesItem(s, k, fs, ref, em) ==
    LoopHead(FILE_STATUS_CHANGED(s, fs[k + 1], "error"), k, fs, ref,
             updateMap(em, fs[k + 1], "error"))

\* catch (error): the item becomes error and the loop goes on
Catch(s, k, fs, ref, em) ==
    LoopHead(FILE_STATUS_CHANGED(s, fs[k + 1], "error"), k + 1, fs, ref,
             updateMap(em, fs[k + 1], "error"))

\* mutant: a checkpoint that sees the flag marks the item in flight error
AfterStep_CancelMarksError(s, k, fs, ref, em, step) ==
    IF ref THEN Break(FILE_STATUS_CHANGED(s, fs[k + 1], "error"), k, ref,
                      updateMap(em, fs[k + 1], "error"),
                      CASE step = "generateMask" -> "cancelMask"
                        [] step = "applyMask" -> "cancelApply"
                        [] OTHER -> "cancelSave")
    ELSE IF step = "generateMask"
         THEN [st |-> s, pc |-> "applyMask", i |-> k, em |-> em, exit |-> "running"]
    ELSE IF step = "applyMask"
         THEN [st |-> s, pc |-> "save", i |-> k, em |-> em, exit |-> "running"]
    ELSE LoopHead(FILE_STATUS_CHANGED(s, fs[k + 1], "completed"), k + 1, fs, ref,
                  updateMap(em, fs[k + 1], "completed"))

\* mutant: a written item is left in processing
AfterStep_LeavesProcessing(s, k, fs, ref, em, step) ==
    IF ref THEN Break(s, k, ref, em,
                      CASE step = "generateMask" -> "cancelMask"
                        [] step = "applyMask" -> "cancelApply"
                        [] OTHER -> "cancelSave")
    ELSE IF step = "generateMask"
         THEN [st |-> s, pc |-> "applyMask", i |-> k, em |-> em, exit |-> "running"]
    ELSE IF step = "applyMask"
         THEN [st |-> s, pc |-> "save", i |-> k, em |-> em, exit |-> "running"]
    ELSE LoopHead(s, k + 1, fs, ref, em)

\* mutant: no checkpoint after the mask request
AfterStep_NoMaskCheckpoint(s, k, fs, ref, em, step) ==
    IF step = "generateMask"
    THEN [st |-> s, pc |-> "applyMask", i |-> k, em |-> em, exit |-> "running"]
    ELSE IF ref THEN Break(s, k, ref, em,
                           CASE step = "applyMask" -> "cancelApply"
                             [] OTHER -> "cancelSave")
    ELSE IF step = "applyMask"
         THEN [st |-> s, pc |-> "save", i |-> k, em |-> em, exit |-> "running"]
    ELSE LoopHead(FILE_STATUS_CHANGED(s, fs[k + 1], "completed"), k + 1, fs, ref,
                  updateMap(em, fs[k + 1], "completed"))

\* a step resolved: its checkpoint, then the next await
AfterStep(s, k, fs, ref, em, step) ==
    IF ref THEN Break(s, k, ref, em,
                      CASE step = "generateMask" -> "cancelMask"
                        [] step = "applyMask" -> "cancelApply"
                        [] OTHER -> "cancelSave")
    ELSE IF step = "generateMask"
         THEN [st |-> s, pc |-> "applyMask", i |-> k, em |-> em, exit |-> "running"]
    ELSE IF step = "applyMask"
         THEN [st |-> s, pc |-> "save", i |-> k, em |-> em, exit |-> "running"]
    ELSE LoopHead(FILE_STATUS_CHANGED(s, fs[k + 1], "completed"), k + 1, fs, ref,
                  updateMap(em, fs[k + 1], "completed"))

\* ---------------------------------------------------------------- App.tsx
\* the useState hooks of App.tsx as first rendered
initialApp == [files |-> <<>>, outputFolder |-> NoFolder, isDragging |-> FALSE,
               isProcessing |-> FALSE, processedFiles |-> <<>>,
               currentProcessingIndex |-> 0]

UseStateInit ==
    /\ app = initialApp
    /\ cancelledRef = FALSE
    /\ loops = {}
    /\ uuids = 0
    /\ starts = 0

\* new Map(prev) with next.set(id, status)
mapSet(prev, id, status) ==
    [k \in (DOMAIN prev) \cup {id} |-> IF k = id THEN status ELSE prev[k]]

\* isComplete() of App.tsx
isCompleteApp(a) ==
    /\ Len(a.files) # 0
    /\ DOMAIN a.processedFiles # {}
    /\ \A id \in DOMAIN a.processedFiles : a.processedFiles[id] \in Terminal

\* !isProcessing && !isComplete()
editableApp(a) == ~a.isProcessing /\ ~isCompleteApp(a)

\* handleStart from the head of iteration k of loop l to its next await, or
\* to its end (setIsProcessing(false))
forLoop(a, ref, l, k) ==
    IF k >= Len(l.fs) \/ ref
    THEN [app |-> [a EXCEPT !.isProcessing = FALSE], loops |-> loops \ {l}]
    ELSE [app |-> [a EXCEPT !.currentProcessingIndex = k,
                            !.processedFiles = mapSet(@, l.fs[k + 1], "processing")],
          loops |-> (loops \ {l}) \cup {[l EXCEPT !.i = k, !.pc = "generateMask"]}]

\* ------------------------------------------------------------------ steps
\* a dispatch from a click handler: rendered, and its effect run, in the event
Committed(s) ==
    /\ state' = s
    /\ rendered' = s
    /\ isCancellingRef' = isCancelling(s)

Loop == <<pc, i, loopFiles, runs, exit, failed, cancelClicked, emitted>>

\* mutant: the list can be edited whenever no finished run is shown
Editable_WhileProcessing(s) == ~isComplete(s)

Editable(s) == ~isProcessing(s) /\ ~isComplete(s)

FreshIds(n) == [k \in 1..n |-> nextId + k]

\* handleFileInputChange: the picker is reached from "Select images" (empty
\* list) or "Add more images"
FileInputChange(n) ==
    /\ Len(rendered.files) = 0 \/ Editable(rendered)
    /\ ~isProcessing(rendered)
    /\ nextId + n <= MaxIds
    /\ Len(state.files) + n <= MaxFiles
    /\ Committed(FILES_SELECTED(state, FreshIds(n)))
    /\ nextId' = nextId + n
    /\ lastAct' = "FileInputChange"
    /\ UNCHANGED Services
    /\ UNCHANGED UseState
    /\ UNCHANGED Loop

\* handleDrop
Drop(n) ==
    /\ Editable(rendered)
    /\ nextId + n <= MaxIds
    /\ Len(state.files) + n <= MaxFiles
    /\ Committed(FILES_SELECTED(DRAG_LEFT(state), FreshIds(n)))
    /\ nextId' = nextId + n
    /\ lastAct' = "Drop"
    /\ UNCHANGED Services
    /\ UNCHANGED UseState
    /\ UNCHANGED Loop

\* handleDragEnter, handleDragOver
DragEnter ==
    /\ Editable(rendered)
    /\ Committed(DRAG_ENTERED(state))
    /\ lastAct' = "DragEnter"
    /\ UNCHANGED Services
    /\ UNCHANGED UseState
    /\ UNCHANGED <<Loop, nextId>>

\* handleDragLeave
DragLeave ==
    /\ Editable(rendered)
    /\ Committed(DRAG_LEFT(state))
    /\ lastAct' = "DragLeave"
    /\ UNCHANGED Services
    /\ UNCHANGED UseState
    /\ UNCHANGED <<Loop, nextId>>

\* removeFile(index), the row's button
RemoveFile(index) ==
    /\ index \in 0..(Len(rendered.files) - 1)
    /\ rowStatus(rendered, rendered.files[index + 1]) \notin {"processing", "completed"}
    /\ Editable(rendered)
    /\ Committed(REMOVE_FILE_BUTTON_CLICKED(state, index))
    /\ lastAct' = "RemoveFile"
    /\ UNCHANGED Services
    /\ UNCHANGED UseState
    /\ UNCHANGED <<Loop, nextId>>

\* clearFiles, "Remove all"
ClearFiles ==
    /\ Len(rendered.files) > 0
    /\ Editable(rendered)
    /\ Committed(CLEAR_FILES_BUTTON_CLICKED(state))
    /\ lastAct' = "ClearFiles"
    /\ UNCHANGED Services
    /\ UNCHANGED UseState
    /\ UNCHANGED <<Loop, nextId>>

\* handleFolderSelect with a folder chosen in the dialog
FolderSelect(folder) ==
    /\ Editable(rendered)
    /\ Committed(OUTPUT_FOLDER_SELECTED(state, folder))
    /\ lastAct' = "FolderSelect"
    /\ UNCHANGED Services
    /\ UNCHANGED UseState
    /\ UNCHANGED <<Loop, nextId>>

\* mutant: the button is offered while a run is processing
StartEnabled_WhileProcessing ==
    /\ ~isComplete(rendered)
    /\ Len(rendered.files) # 0
    /\ rendered.outputFolder # NoFolder

\* mutant: the button is not disabled without an output folder
StartEnabled_NoFolderCheck ==
    /\ ~isComplete(rendered)
    /\ ~isProcessing(rendered)
    /\ Len(rendered.files) # 0

\* "Remove background": handleStart up to its first await
StartEnabled ==
    /\ ~isComplete(rendered)
    /\ ~isProcessing(rendered)
    /\ Len(rendered.files) # 0
    /\ rendered.outputFolder # NoFolder

Start ==
    /\ StartEnabled
    /\ runs < MaxRuns
    /\ LET fs == rendered.files
           em0 == [id \in Range(fs) |-> "pending"]
           r == LoopHead(REMOVE_BACKGROUND_BUTTON_CLICKED(state), 0, fs,
                         isCancellingRef, em0)
       IN /\ Committed(r.st)
          /\ pc' = r.pc
          /\ i' = r.i
          /\ emitted' = r.em
          /\ exit' = r.exit
          /\ loopFiles' = fs
    /\ runs' = runs + 1
    /\ failed' = {}
    /\ cancelClicked' = FALSE
    /\ lastAct' = "Start"
    /\ UNCHANGED Services
    /\ UNCHANGED UseState
    /\ UNCHANGED nextId

\* the Cancel button
CancelEnabled ==
    /\ ~isComplete(rendered)
    /\ isProcessing(rendered)
    /\ ~isCancelling(rendered)

Cancel ==
    /\ CancelEnabled
    /\ Committed(CANCEL_BUTTON_CLICKED(state))
    /\ cancelClicked' = (cancelClicked \/ state.processingRequest # Undefined)
    /\ lastAct' = "Cancel"
    /\ UNCHANGED Services
    /\ UNCHANGED UseState
    /\ UNCHANGED <<pc, i, loopFiles, runs, exit, failed, emitted, nextId>>

\* handleReset: clearFiles(), then resetButtonClicked()
Reset ==
    /\ isComplete(rendered)
    /\ Committed(RESET_BUTTON_CLICKED(CLEAR_FILES_BUTTON_CLICKED(state)))
    /\ lastAct' = "Reset"
    /\ UNCHANGED Services
    /\ UNCHANGED UseState
    /\ UNCHANGED <<Loop, nextId>>

\* the awaited step resolves: handleStart runs on to its next await
Resolved ==
    /\ pc # "idle"
    /\ LET r == AfterStep(state, i, loopFiles, isCancellingRef, emitted, pc)
       IN /\ state' = r.st
          /\ pc' = r.pc
          /\ i' = r.i
          /\ emitted' = r.em
          /\ exit' = r.exit
    /\ lastAct' = "Resolved"
    /\ UNCHANGED Services
    /\ UNCHANGED UseState
    /\ UNCHANGED <<rendered, isCancellingRef, loopFiles, nextId, runs, failed,
                   cancelClicked>>

\* the awaited step rejects: handleStart's catch
Rejected ==
    /\ pc # "idle"
    /\ LET r == Catch(state, i, loopFiles, isCancellingRef, emitted)
       IN /\ state' = r.st
          /\ pc' = r.pc
          /\ i' = r.i
          /\ emitted' = r.em
          /\ exit' = r.exit
    /\ failed' = failed \cup {<<i, pc>>}
    /\ lastAct' = "Rejected"
    /\ UNCHANGED Services
    /\ UNCHANGED UseState
    /\ UNCHANGED <<rendered, isCancellingRef, loopFiles, nextId, runs,
                   cancelClicked>>

\* React commits a render of the actions the loop dispatched
Render ==
    /\ rendered # state
    /\ rendered' = state
    /\ lastAct' = "Render"
    /\ UNCHANGED Services
    /\ UNCHANGED UseState
    /\ UNCHANGED <<state, isCancellingRef, Loop, nextId>>

\* useEffect(() => { isCancellingRef.current = isCancelling }, [isCancelling])
Effect ==
    /\ isCancellingRef # isCancelling(rendered)
    /\ isCancellingRef' = isCancelling(rendered)
    /\ lastAct' = "Effect"
    /\ UNCHANGED Services
    /\ UNCHANGED UseState
    /\ UNCHANGED <<state, rendered, Loop, nextId>>

ControllerInit ==
    /\ \E folder \in Folders \cup {NoFolder} :
           state = [initialState EXCEPT !.outputFolder = folder]
    /\ rendered = state
    /\ isCancellingRef = FALSE
    /\ pc = "idle"
    /\ i = 0
    /\ loopFiles = <<>>
    /\ nextId = 0
    /\ runs = 0
    /\ lastAct = "Init"
    /\ exit = "none"
    /\ failed = {}
    /\ cancelClicked = FALSE
    /\ emitted = <<>>

Init ==
    /\ ControllerInit
    /\ photo = NoImage
    /\ mask = NoImage
    /\ canvas = NoCanvas
    /\ applyPc = "idle"
    /\ blob = NoBlob
    /\ fileName = <<>>
    /\ newFileName = NoName
    /\ UseStateInit

Next ==
    \/ \E n \in 1..2 : FileInputChange(n)
    \/ \E n \in 1..2 : Drop(n)
    \/ DragEnter
    \/ DragLeave
    \/ \E index \in 0..(MaxFiles - 1) : RemoveFile(index)
    \/ ClearFiles
    \/ \E folder \in Folders : FolderSelect(folder)
    \/ Start
    \/ Cancel
    \/ Reset
    \/ Resolved
    \/ Rejected
    \/ Render
    \/ Effect

Spec == Init /\ [][Next]_vars

\* Every pending mask request, compositing step and write is eventually
\* settled: the awaited promise resolves or rejects.
LiveSpec == Init /\ [][Next]_vars /\ WF_vars(Resolved \/ Rejected)

\* ------------------------------------------------------------ one batch
\* a list of MaxBatch files and an output folder have been selected
BatchInit ==
    /\ state = [initialState EXCEPT !.files = [k \in 1..MaxBatch |-> k],
                                    !.outputFolder = "out"]
    /\ rendered = state
    /\ isCancellingRef = FALSE
    /\ pc = "idle"
    /\ i = 0
    /\ loopFiles = <<>>
    /\ nextId = MaxBatch
    /\ runs = 0
    /\ lastAct = "Init"
    /\ exit = "none"
    /\ failed = {}
    /\ cancelClicked = FALSE
    /\ emitted = <<>>
    /\ photo = NoImage
    /\ mask = NoImage
    /\ canvas = NoCanvas
    /\ applyPc = "idle"
    /\ blob = NoBlob
    /\ fileName = <<>>
    /\ newFileName = NoName
    /\ UseStateInit

\* the runs of the batch, and the edits of the list between them
BatchNext ==
    \/ \E index \in 0..(MaxBatch - 1) : RemoveFile(index)
    \/ ClearFiles
    \/ Start
    \/ Cancel
    \/ Reset
    \/ Resolved
    \/ Rejected
    \/ Render
    \/ Effect

BatchSpec == BatchInit /\ [][BatchNext]_vars

\* ---------------------------------------------------------------- applyMask
\* the controller's variables, which the services never touch
Controller == <<state, rendered, isCancellingRef, pc, i, loopFiles, nextId,
                runs, lastAct, exit, failed, cancelClicked, emitted>>

\* channel values a pixel is sampled from
Channels == {0, 1, 128, 254, 255}

Dims == 1..MaxDim

Rect(x, y, w, h) == [x |-> x, y |-> y, w |-> w, h |-> h]

NoRect == Rect(0, 0, 0, 0)

Pixel(r, g, b, a) == [r |-> r, g |-> g, b |-> b, a |-> a]

\* a store into a Uint8ClampedArray of the number x.num / x.den: rounded to
\* the nearest integer, ties to even, and clamped to 0..255
ToUint8Clamp(x) ==
    LET q == x.num \div x.den
        r == x.num % x.den
        n == IF 2 * r < x.den THEN q
             ELSE IF 2 * r > x.den THEN q + 1
             ELSE IF q % 2 = 0 THEN q ELSE q + 1
    IN  IF n < 0 THEN 0 ELSE IF n > 255 THEN 255 ELSE n

\* mutant: perceptual weights instead of the plain average
brightness_Weighted(data) ==
    [num |-> 2 * data.r + 5 * data.g + data.b, den |-> 8]

\* const brightness = (data[i] + data[i + 1] + data[i + 2]) / 3
brightness(data) == [num |-> data.r + data.g + data.b, den |-> 3]

\* mutant: the canvas takes the size of the mask
SetupCanvas_SizedFromMask ==
    /\ applyPc = "loaded"
    /\ canvas' = [width |-> mask.width, height |-> mask.height,
                  op |-> "source-over",
                  maskSrc |-> NoRect, maskDst |-> NoRect,
                  photoSrc |-> NoRect, photoDst |-> NoRect,
                  data |-> Pixel(0, 0, 0, 0)]
    /\ applyPc' = "canvas"
    /\ UNCHANGED <<photo, mask, blob, fileName, newFileName>>
    /\ UNCHANGED Controller
    /\ UNCHANGED UseState

\* a canvas of the photo's size, with a 2d context
SetupCanvas ==
    /\ applyPc = "loaded"
    /\ canvas' = [width |-> photo.width, height |-> photo.height,
                  op |-> "source-over",
                  maskSrc |-> NoRect, maskDst |-> NoRect,
                  photoSrc |-> NoRect, photoDst |-> NoRect,
                  data |-> Pixel(0, 0, 0, 0)]
    /\ applyPc' = "canvas"
    /\ UNCHANGED <<photo, mask, blob, fileName, newFileName>>
    /\ UNCHANGED Controller
    /\ UNCHANGED UseState

\* getContext("2d") gave null: "Failed to get canvas context"
NoContext ==
    /\ applyPc = "loaded"
    /\ canvas' = [width |-> photo.width, height |-> photo.height,
                  op |-> "none",
                  maskSrc |-> NoRect, maskDst |-> NoRect,
                  photoSrc |-> NoRect, photoDst |-> NoRect,
                  data |-> Pixel(0, 0, 0, 0)]
    /\ applyPc' = "rejected"
    /\ UNCHANGED <<photo, mask, blob, fileName, newFileName>>
    /\ UNCHANGED Controller
    /\ UNCHANGED UseState

\* ctx.drawImage(mask, 0, 0, canvas.width, canvas.height): the whole mask
\* onto the whole canvas
DrawMask ==
    /\ applyPc = "canvas"
    /\ canvas' = [canvas EXCEPT
                    !.maskSrc = Rect(0, 0, mask.width, mask.height),
                    !.maskDst = Rect(0, 0, canvas.width, canvas.height),
                    !.data = Pixel(mask.r, mask.g, mask.b, 255)]
    /\ applyPc' = "maskDrawn"
    /\ UNCHANGED <<photo, mask, blob, fileName, newFileName>>
    /\ UNCHANGED Controller
    /\ UNCHANGED UseState

\* the luma to alpha loop over getImageData, then putImageData
LumaToAlpha ==
    /\ applyPc = "maskDrawn"
    /\ canvas' = [canvas EXCEPT
                    !.data.a = ToUint8Clamp(brightness(canvas.data))]
    /\ applyPc' = "alpha"
    /\ UNCHANGED <<photo, mask, blob, fileName, newFileName>>
    /\ UNCHANGED Controller
    /\ UNCHANGED UseState

\* globalCompositeOperation = "source-in"; ctx.drawImage(photo, 0, 0): the
\* photo at its own size, kept where the canvas is opaque
DrawPhoto ==
    /\ applyPc = "alpha"
    /\ canvas' = [canvas EXCEPT
                    !.op = "source-in",
                    !.photoSrc = Rect(0, 0, photo.width, photo.height),
                    !.photoDst = Rect(0, 0, photo.width, photo.height),
                    !.data = Pixel(photo.r, photo.g, photo.b,
                                   (photo.a * canvas.data.a) \div 255)]
    /\ applyPc' = "photoDrawn"
    /\ UNCHANGED <<photo, mask, blob, fileName, newFileName>>
    /\ UNCHANGED Controller
    /\ UNCHANGED UseState

\* canvas.toBlob called back with a blob: the promise resolves
ToBlob ==
    /\ applyPc = "photoDrawn"
    /\ blob' = [type |-> "image/png",
                width |-> canvas.width, height |-> canvas.height,
                data |-> canvas.data]
    /\ applyPc' = "resolved"
    /\ UNCHANGED <<photo, mask, canvas, fileName, newFileName>>
    /\ UNCHANGED Controller
    /\ UNCHANGED UseState

\* canvas.toBlob called back with null: "Failed to create blob"
BlobFailed ==
    /\ applyPc = "photoDrawn"
    /\ blob' = [type |-> "null"]
    /\ applyPc' = "rejected"
    /\ UNCHANGED <<photo, mask, canvas, fileName, newFileName>>
    /\ UNCHANGED Controller
    /\ UNCHANGED UseState

\* applyMask after both images have loaded
CompositorInit ==
    /\ ControllerInit
    /\ state = initialState
    /\ \E w \in Dims, h \in Dims, a \in {0, 255} :
           photo = [width |-> w, height |-> h,
                    r |-> 10, g |-> 20, b |-> 30, a |-> a]
    /\ \E w \in Dims, h \in Dims, r \in Channels, g \in Channels,
          b \in Channels :
           mask = [width |-> w, height |-> h, r |-> r, g |-> g, b |-> b]
    /\ canvas = NoCanvas
    /\ applyPc = "loaded"
    /\ blob = NoBlob
    /\ fileName = <<>>
    /\ newFileName = NoName
    /\ UseStateInit

CompositorNext ==
    \/ SetupCanvas
    \/ NoContext
    \/ DrawMask
    \/ LumaToAlpha
    \/ DrawPhoto
    \/ ToBlob
    \/ BlobFailed

CompositorSpec == CompositorInit /\ [][CompositorNext]_vars

\* ----------------------------------------------------------- createFileName
Chars == {"a", "b", "."}

Suffix == <<"-clipped.png">>

Rejects == <<"rejects">>

\* File.name values: non-empty, no separator, not "." or ".."
Names ==
    UNION {[1..k -> Chars] : k \in 1..MaxNameLen} \ {<<".">>, <<".", ".">>}

\* last position of character c in str, 0 when there is none
LastIndexOf(str, c) ==
    LET at == {k \in 1..Len(str) : str[k] = c}
    IN  IF at = {} THEN 0 ELSE CHOOSE k \in at : \A m \in at : m <= k

\* basename of @tauri-apps/api/path: the last component of the path
basename(path) == SubSeq(path, LastIndexOf(path, "/") + 1, Len(path))

\* extname of @tauri-apps/api/path: the text after the final dot of the
\* last component, without the dot; it rejects when there is none (no dot,
\* or only a leading one)
extname(path) ==
    LET f == basename(path)
        d == LastIndexOf(f, ".")
    IN  IF d <= 1 \/ f = <<".", ".">> THEN Rejects
        ELSE SubSeq(f, d + 1, Len(f))

\* String.prototype.replace(pattern, "") with a string pattern: the first
\* occurrence is removed
replace(str, pattern) ==
    LET n == Len(pattern)
        at == {k \in 1..(Len(str) - n + 1) : SubSeq(str, k, k + n - 1) = pattern}
    IN  IF at = {} THEN str
        ELSE LET k == CHOOSE k \in at : \A m \in at : k <= m
             IN  SubSeq(str, 1, k - 1) \o SubSeq(str, k + n, Len(str))

createFileName(name) ==
    IF extname(name) = Rejects THEN Rejects
    ELSE replace(basename(name), extname(name)) \o Suffix

\* createFileName returns the new name
CreateFileName ==
    /\ newFileName = NoName
    /\ createFileName(fileName) # Rejects
    /\ newFileName' = createFileName(fileName)
    /\ UNCHANGED <<photo, mask, canvas, applyPc, blob, fileName>>
    /\ UNCHANGED Controller
    /\ UNCHANGED UseState

\* extname rejects, and so do createFileName and save
CreateFileNameRejects ==
    /\ newFileName = NoName
    /\ createFileName(fileName) = Rejects
    /\ newFileName' = Rejects
    /\ UNCHANGED <<photo, mask, canvas, applyPc, blob, fileName>>
    /\ UNCHANGED Controller
    /\ UNCHANGED UseState

NamingInit ==
    /\ ControllerInit
    /\ state = initialState
    /\ photo = NoImage
    /\ mask = NoImage
    /\ canvas = NoCanvas
    /\ applyPc = "idle"
    /\ blob = NoBlob
    /\ fileName \in Names
    /\ newFileName = NoName
    /\ UseStateInit

NamingNext ==
    \/ CreateFileName
    \/ CreateFileNameRejects

NamingSpec == NamingInit /\ [][NamingNext]_vars

\* ------------------------------------------- run events without a run record
\* lists of distinct file ids
FileLists ==
    {fs \in UNION {[1..k -> 1..MaxIds] : k \in 0..MaxFiles} :
        \A a \in DOMAIN fs, b \in DOMAIN fs : a # b => fs[a] # fs[b]}

\* the states of the reducer that hold no run record
NoRecordStates ==
    {[files |-> fs, isDragging |-> d, outputFolder |-> o,
      processingRequest |-> Undefined] :
        fs \in FileLists, d \in BOOLEAN, o \in Folders \cup {NoFolder}}

\* dispatch of a run event
FileStatusChanged(fileId, status) ==
    /\ state.processingRequest = Undefined
    /\ state' = FILE_STATUS_CHANGED(state, fileId, status)
    /\ lastAct' = "FILE_STATUS_CHANGED"
    /\ UNCHANGED <<rendered, isCancellingRef, Loop, nextId>>
    /\ UNCHANGED <<Services, UseState>>

ProcessingProgressChanged(index) ==
    /\ state.processingRequest = Undefined
    /\ state' = PROCESSING_PROGRESS_CHANGED(state, index)
    /\ lastAct' = "PROCESSING_PROGRESS_CHANGED"
    /\ UNCHANGED <<rendered, isCancellingRef, Loop, nextId>>
    /\ UNCHANGED <<Services, UseState>>

ProcessingCompleted ==
    /\ state.processingRequest = Undefined
    /\ state' = PROCESSING_COMPLETED(state)
    /\ lastAct' = "PROCESSING_COMPLETED"
    /\ UNCHANGED <<rendered, isCancellingRef, Loop, nextId>>
    /\ UNCHANGED <<Services, UseState>>

CancelButtonClicked ==
    /\ state.processingRequest = Undefined
    /\ state' = CANCEL_BUTTON_CLICKED(state)
    /\ lastAct' = "CANCEL_BUTTON_CLICKED"
    /\ UNCHANGED <<rendered, isCancellingRef, Loop, nextId>>
    /\ UNCHANGED <<Services, UseState>>

CancelComplete ==
    /\ state.processingRequest = Undefined
    /\ state' = CANCEL_COMPLETE(state)
    /\ lastAct' = "CANCEL_COMPLETE"
    /\ UNCHANGED <<rendered, isCancellingRef, Loop, nextId>>
    /\ UNCHANGED <<Services, UseState>>

ReducerInit ==
    /\ state \in NoRecordStates
    /\ rendered = state
    /\ isCancellingRef = FALSE
    /\ pc = "idle"
    /\ i = 0
    /\ loopFiles = <<>>
    /\ nextId = MaxIds
    /\ runs = 0
    /\ lastAct = "Init"
    /\ exit = "none"
    /\ failed = {}
    /\ cancelClicked = FALSE
    /\ emitted = <<>>
    /\ photo = NoImage
    /\ mask = NoImage
    /\ canvas = NoCanvas
    /\ applyPc = "idle"
    /\ blob = NoBlob
    /\ fileName = <<>>
    /\ newFileName = NoName
    /\ UseStateInit

ReducerNext ==
    \/ \E fileId \in 1..MaxIds, status \in FileStatus :
           FileStatusChanged(fileId, status)
    \/ \E index \in 0..(MaxFiles - 1) : ProcessingProgressChanged(index)
    \/ ProcessingCompleted
    \/ CancelButtonClicked
    \/ CancelComplete

ReducerSpec == ReducerInit /\ [][ReducerNext]_vars

\* ------------------------------------------------- the App of src/src/App.tsx
appFreshIds(n) == [k \in 1..n |-> uuids + k]

\* processedFiles.get(file.id) || "pending"
statusApp(a, id) ==
    IF id \in DOMAIN a.processedFiles THEN a.processedFiles[id] ELSE "pending"

\* handleFileInputChange, reached from "Select images" or "Add more images"
handleFileInputChange(n) ==
    /\ Len(app.files) = 0 \/ editableApp(app)
    /\ ~app.isProcessing
    /\ uuids + n <= MaxAppFiles
    /\ app' = [app EXCEPT !.files = @ \o appFreshIds(n)]
    /\ uuids' = uuids + n
    /\ UNCHANGED <<cancelledRef, loops, starts>>
    /\ UNCHANGED <<Controller, Services>>

handleDrop(n) ==
    /\ editableApp(app)
    /\ uuids + n <= MaxAppFiles
    /\ app' = [app EXCEPT !.isDragging = FALSE, !.files = @ \o appFreshIds(n)]
    /\ uuids' = uuids + n
    /\ UNCHANGED <<cancelledRef, loops, starts>>
    /\ UNCHANGED <<Controller, Services>>

\* handleDragEnter, handleDragOver
handleDragEnter ==
    /\ editableApp(app)
    /\ app' = [app EXCEPT !.isDragging = TRUE]
    /\ UNCHANGED <<cancelledRef, loops, uuids, starts>>
    /\ UNCHANGED <<Controller, Services>>

handleDragLeave ==
    /\ editableApp(app)
    /\ app' = [app EXCEPT !.isDragging = FALSE]
    /\ UNCHANGED <<cancelledRef, loops, uuids, starts>>
    /\ UNCHANGED <<Controller, Services>>

\* handleFolderSelect with a folder chosen in the dialog
handleFolderSelect(folder) ==
    /\ editableApp(app)
    /\ app' = [app EXCEPT !.outputFolder = folder]
    /\ UNCHANGED <<cancelledRef, loops, uuids, starts>>
    /\ UNCHANGED <<Controller, Services>>

removeFile(index) ==
    /\ index \in 0..(Len(app.files) - 1)
    /\ statusApp(app, app.files[index + 1]) \notin {"processing", "completed"}
    /\ editableApp(app)
    /\ app' = [app EXCEPT !.files = SubSeq(@, 1, index)
                                    \o SubSeq(@, index + 2, Len(@))]
    /\ UNCHANGED <<cancelledRef, loops, uuids, starts>>
    /\ UNCHANGED <<Controller, Services>>

\* "Remove all"
clearFiles ==
    /\ Len(app.files) > 0
    /\ editableApp(app)
    /\ app' = [app EXCEPT !.files = <<>>]
    /\ UNCHANGED <<cancelledRef, loops, uuids, starts>>
    /\ UNCHANGED <<Controller, Services>>

\* "Remove background": handleStart up to its first await
handleStart ==
    /\ ~isCompleteApp(app)
    /\ ~app.isProcessing
    /\ Len(app.files) # 0
    /\ app.outputFolder # NoFolder
    /\ starts < MaxAppStarts
    /\ LET initialStatus == [id \in Range(app.files) |-> "pending"]
           r == forLoop([app EXCEPT !.processedFiles = initialStatus,
                                    !.currentProcessingIndex = 0,
                                    !.isProcessing = TRUE],
                        FALSE,
                        [run |-> starts + 1, fs |-> app.files, i |-> 0,
                         pc |-> "generateMask"],
                        0)
       IN /\ app' = r.app
          /\ loops' = r.loops
    /\ cancelledRef' = FALSE
    /\ starts' = starts + 1
    /\ UNCHANGED uuids
    /\ UNCHANGED <<Controller, Services>>

\* the Cancel button's onClick
cancelClick ==
    /\ ~isCompleteApp(app)
    /\ app.isProcessing
    /\ cancelledRef' = TRUE
    /\ app' = [app EXCEPT !.isProcessing = FALSE, !.processedFiles = <<>>]
    /\ UNCHANGED <<loops, uuids, starts>>
    /\ UNCHANGED <<Controller, Services>>

handleReset ==
    /\ isCompleteApp(app)
    /\ cancelledRef' = FALSE
    /\ app' = [app EXCEPT !.isProcessing = FALSE, !.processedFiles = <<>>,
                          !.currentProcessingIndex = 0, !.files = <<>>]
    /\ UNCHANGED <<loops, uuids, starts>>
    /\ UNCHANGED <<Controller, Services>>

\* the step a loop awaits resolves: the next step, or after the write the
\* cancellation check, the completed status and the next iteration
stepResolved(run) ==
    /\ \E l \in loops :
       /\ l.run = run
       /\ LET r == IF l.pc = "generateMask"
                   THEN [app |-> app,
                         loops |-> (loops \ {l}) \cup {[l EXCEPT !.pc = "applyMask"]}]
                   ELSE IF l.pc = "applyMask"
                   THEN [app |-> app,
                         loops |-> (loops \ {l}) \cup {[l EXCEPT !.pc = "save"]}]
                   ELSE IF cancelledRef
                   THEN [app |-> [app EXCEPT !.isProcessing = FALSE],
                         loops |-> loops \ {l}]
                   ELSE forLoop([app EXCEPT !.processedFiles =
                                     mapSet(@, l.fs[l.i + 1], "completed")],
                                cancelledRef, l, l.i + 1)
          IN /\ app' = r.app
             /\ loops' = r.loops
    /\ UNCHANGED <<cancelledRef, uuids, starts>>
    /\ UNCHANGED <<Controller, Services>>

\* the step a loop awaits rejects: the catch, then the next iteration
stepRejected(run) ==
    /\ \E l \in loops :
       /\ l.run = run
       /\ LET r == forLoop([app EXCEPT !.processedFiles =
                                mapSet(@, l.fs[l.i + 1], "error")],
                           cancelledRef, l, l.i + 1)
          IN /\ app' = r.app
             /\ loops' = r.loops
    /\ UNCHANGED <<cancelledRef, uuids, starts>>
    /\ UNCHANGED <<Controller, Services>>

UseStateSpecInit ==
    /\ ControllerInit
    /\ state = initialState
    /\ photo = NoImage
    /\ mask = NoImage
    /\ canvas = NoCanvas
    /\ applyPc = "idle"
    /\ blob = NoBlob
    /\ fileName = <<>>
    /\ newFileName = NoName
    /\ \E folder \in Folders \cup {NoFolder} :
           app = [initialApp EXCEPT !.outputFolder = folder]
    /\ cancelledRef = FALSE
    /\ loops = {}
    /\ uuids = 0
    /\ starts = 0

UseStateNext ==
    \/ \E n \in 1..2 : handleFileInputChange(n)
    \/ \E n \in 1..2 : handleDrop(n)
    \/ handleDragEnter
    \/ handleDragLeave
    \/ \E folder \in Folders : handleFolderSelect(folder)
    \/ \E index \in 0..(MaxAppFiles - 1) : removeFile(index)
    \/ clearFiles
    \/ handleStart
    \/ cancelClick
    \/ handleReset
    \/ \E run \in 1..MaxAppStarts : stepResolved(run)
    \/ \E run \in 1..MaxAppStarts : stepRejected(run)

UseStateSpec == UseStateSpecInit /\ [][UseStateNext]_vars

\* ------------------------------------------------------------ sanity
TypeOK ==
    /\ pc \in {"idle", "generateMask", "applyMask", "save"}
    /\ isCancellingRef \in BOOLEAN
    /\ rendered.files = state.files
    /\ rendered.outputFolder = state.outputFolder

\* the buttons never let a second handleStart begin while one is suspended
OneLoop == pc # "idle" => ~StartEnabled /\ isProcessing(state)

\* ------------------------------------------------------------ claims
\* the state right after handleStart returned
JustEnded == pc = "idle" /\ lastAct \in {"Start", "Resolved", "Rejected"}

StatusStep(a, b) ==
    \/ a = b
    \/ a = "pending" /\ b = "processing"
    \/ a = "processing" /\ b \in Terminal

CountOf(map, status) == Cardinality({id \in DOMAIN map : map[id] = status})

\* C1: within one run every item's status only moves pending -> processing ->
\* completed or error; a new run starts its items at pending (the first one
\* already taken into processing), and a terminal status never changes.
C1_StatusOrder ==
    [][/\ (runs' = runs /\ state.processingRequest # Undefined
                        /\ state'.processingRequest # Undefined)
           => /\ DOMAIN processedFiles(state') = DOMAIN processedFiles(state)
              /\ \A id \in DOMAIN processedFiles(state) :
                     StatusStep(processedFiles(state)[id], processedFiles(state')[id])
       /\ (runs' # runs)
           => \A id \in DOMAIN processedFiles(state') :
                  processedFiles(state')[id] \in {"pending", "processing"}]_vars

C1_Witness ==
    /\ isProcessing(state)
    /\ CountOf(processedFiles(state), "completed") >= 1
    /\ CountOf(processedFiles(state), "error") >= 1
    /\ CountOf(processedFiles(state), "processing") = 1

\* C2: a step of item i that fails with no cancel requested marks item i
\* error, leaves every other item's status alone, and item i+1 (if any) is
\* taken into processing.
C2_FailureIsolation ==
    [][(lastAct' = "Rejected" /\ ~isCancelling(state))
        => LET fs == loopFiles
               old == processedFiles(state)
               new == processedFiles(state')
           IN /\ new[fs[i + 1]] = "error"
              /\ \A k \in 0..(Len(fs) - 1) :
                     (k # i /\ k # i + 1) => new[fs[k + 1]] = old[fs[k + 1]]
              /\ (i + 1 < Len(fs))
                  => /\ old[fs[i + 2]] = "pending"
                     /\ new[fs[i + 2]] = "processing"
                     /\ pc' = "generateMask"
                     /\ i' = i + 1]_vars

C2_Witness ==
    /\ lastAct = "Rejected"
    /\ ~cancelClicked
    /\ pc = "generateMask"
    /\ i = 2
    /\ processedFiles(state)[loopFiles[1]] = "completed"
    /\ processedFiles(state)[loopFiles[2]] = "error"
    /\ processedFiles(state)[loopFiles[3]] = "processing"

\* C3: a run of N items without cancellation in which item k fails at
\* compositing and every other step succeeds ends with status success,
\* exactly one error and exactly N-1 completed items.
C3_OneCompositingFailure ==
    \A k \in 0..MaxFiles :
        (JustEnded /\ ~cancelClicked /\ failed = {<<k, "applyMask">>})
        => /\ state.processingRequest # Undefined
           /\ state.processingRequest.status = "success"
           /\ CountOf(processedFiles(state), "error") = 1
           /\ CountOf(processedFiles(state), "completed") = Len(loopFiles) - 1
           /\ processedFiles(state)[loopFiles[k + 1]] = "error"

C3_Witness ==
    /\ JustEnded
    /\ ~cancelClicked
    /\ failed = {<<1, "applyMask">>}
    /\ Len(loopFiles) = 3

\* C4 (as claimed): for all runs, once the loop has finished, progress is 100.
C4_Original == (JustEnded /\ exit # "none") => getProgress(state) = 100

\* C4 (amended): once the loop has finished with the cancel flag not set,
\* progress is 100 and the status success; whenever the status is success,
\* progress is 100.
C4_ProgressAfterLoop ==
    /\ (JustEnded /\ exit = "completed")
        => /\ state.processingRequest # Undefined
           /\ state.processingRequest.status = "success"
           /\ state.processingRequest.progress = 100
           /\ getProgress(state) = 100
    /\ (state.processingRequest # Undefined
        /\ state.processingRequest.status = "success")
        => state.processingRequest.progress = 100

C4_Witness ==
    /\ JustEnded
    /\ exit = "completed"
    /\ failed # {}
    /\ state.processingRequest.progress = 100

\* the loop saw the flag at the first checkpoint, before any item started
CancelledAtFirstCheckpoint == JustEnded /\ exit = "cancelHead" /\ i = 0

C6_NoAdvanceAfterCancel ==
    [][(cancelClicked /\ runs' = runs)
        => /\ \A id \in DOMAIN emitted :
                  emitted'[id] = "processing" => emitted[id] = "processing"
           /\ \A id \in DOMAIN processedFiles(state') :
                  processedFiles(state')[id] = "processing"
                  => processedFiles(state)[id] = "processing"
           /\ pc' # "idle" => i' = i]_vars

C6_Witness ==
    /\ cancelClicked
    /\ JustEnded
    /\ exit = "cancelHead"
    /\ i = 1
    /\ Len(loopFiles) = 3
    /\ emitted[loopFiles[1]] = "error"
    /\ emitted[loopFiles[2]] = "pending"

\* C7 (as claimed): when the run ends by cancellation, every row keeps the
\* status the loop last gave it in the state observers see.
C7_Original ==
    (JustEnded /\ exit \in Cancels)
    => \A id \in DOMAIN emitted : rowStatus(state, id) = emitted[id]

\* C7 (amended): when the run ends by cancellation the run record, and every
\* per-item status with it, is discarded: every row then shows pending; the
\* cancellation itself dispatches no status for the item in flight, which the
\* loop left at processing, not error.
C7_CancelDiscardsStatuses ==
    (JustEnded /\ exit \in Cancels)
    => /\ state.processingRequest = Undefined
       /\ \A id \in Range(state.files) : rowStatus(state, id) = "pending"
       /\ exit \in {"cancelMask", "cancelApply", "cancelSave"}
           => emitted[loopFiles[i + 1]] = "processing"

C7_Witness ==
    /\ JustEnded
    /\ exit = "cancelSave"
    /\ i = 2
    /\ emitted[loopFiles[1]] = "completed"
    /\ emitted[loopFiles[2]] = "error"

\* C8 (as claimed): a cancelled run ends in a status Cancelled held in the
\* run record.
C8_Original ==
    (exit \in Cancels)
    => /\ state.processingRequest # Undefined
       /\ state.processingRequest.status \notin {"processing", "success"}

\* C8 (amended): a cancelled run ends with the run record discarded (the
\* record has no Cancelled status); neither the state nor any render of it
\* reports a run that ended by cancellation with status success.
C8_CancelledNeverSuccess ==
    (exit \in Cancels)
    => /\ state.processingRequest = Undefined
       /\ ~(rendered.processingRequest # Undefined
            /\ rendered.processingRequest.status = "success")

C8_Witness ==
    /\ exit = "cancelPost"
    /\ cancelClicked
    /\ \A id \in DOMAIN emitted : emitted[id] \in Terminal

\* C9: CANCEL_BUTTON_CLICKED while the run is processing sets isCancelling
\* and changes nothing else; applied again it changes nothing.
C9_CancelFrame ==
    [][(lastAct' = "Cancel" /\ isProcessing(state))
        => /\ state'.processingRequest.isCancelling
           /\ state'.processingRequest.status = state.processingRequest.status
           /\ state'.processingRequest.processedFiles
                  = state.processingRequest.processedFiles
           /\ state'.processingRequest.progress = state.processingRequest.progress
           /\ state'.processingRequest.currentProcessingIndex
                  = state.processingRequest.currentProcessingIndex
           /\ state'.files = state.files
           /\ state'.outputFolder = state.outputFolder
           /\ state'.isDragging = state.isDragging
           /\ CANCEL_BUTTON_CLICKED(state') = state']_vars

C9_Witness ==
    /\ lastAct = "Cancel"
    /\ isProcessing(state)
    /\ isCancelling(state)
    /\ CountOf(processedFiles(state), "completed") = 1
    /\ state.processingRequest.currentProcessingIndex = 1

\* C10: a cancel request when there is no run, or when the run has reached
\* success, leaves the whole state unchanged.
C10_CancelOnlyWhileRunning ==
    [][(lastAct' = "Cancel" /\ ~isProcessing(state)) => state' = state]_vars

\* C11: no run is started while a run is processing: the Remove background
\* button is not offered, so the running run's statuses, index, progress and
\* flag are not reset and no second loop begins.
C11_NoStartWhileRunning ==
    [][/\ (isProcessing(state) \/ pc # "idle") => ~StartEnabled
       /\ (lastAct' = "Start")
           => /\ ~isProcessing(state)
              /\ ~isProcessing(rendered)
              /\ pc = "idle"]_vars

C11_Witness ==
    /\ isProcessing(state)
    /\ pc = "save"
    /\ i = 1
    /\ Len(rendered.files) = 2
    /\ rendered.outputFolder # NoFolder
    /\ ~isCancelling(state)
    /\ ~StartEnabled

\* C12: with no output folder, or with an empty file list, no run starts:
\* there is no run record, no loop and no success.
C12_NoStartWithoutFolderOrFiles ==
    [][/\ (state.outputFolder = NoFolder \/ Len(state.files) = 0)
           => /\ state.processingRequest = Undefined
              /\ pc = "idle"
              /\ ~StartEnabled
       /\ (state.outputFolder = NoFolder) => runs = 0
       /\ (lastAct' = "Start")
           => /\ state.outputFolder # NoFolder
              /\ Len(state.files) > 0
              /\ loopFiles' = state.files]_vars

C12_Witness ==
    /\ state.outputFolder = NoFolder
    /\ Len(state.files) = 2
    /\ ~StartEnabled
    /\ runs = 0

\* C13: a start creates a run record with status processing, every listed
\* id pending, index 0, progress 0 and the flag false, the list and the
\* folder unchanged; handleStart then takes the first item into processing.
C13_StartInitialises ==
    [][(lastAct' = "Start")
        => LET t == REMOVE_BACKGROUND_BUTTON_CLICKED(state)
               r == t.processingRequest
               q == state'.processingRequest
           IN /\ r.status = "processing"
              /\ r.progress = 0
              /\ r.currentProcessingIndex = 0
              /\ r.isCancelling = FALSE
              /\ DOMAIN r.processedFiles = Range(state.files)
              /\ \A id \in Range(state.files) : r.processedFiles[id] = "pending"
              /\ t.files = state.files
              /\ t.outputFolder = state.outputFolder
              /\ state'.files = state.files
              /\ state'.outputFolder = state.outputFolder
              /\ (exit' = "running")
                  => /\ q.status = "processing"
                     /\ q.progress = 0
                     /\ q.currentProcessingIndex = 0
                     /\ q.isCancelling = FALSE
                     /\ DOMAIN q.processedFiles = Range(state.files)
                     /\ \A k \in 1..Len(state.files) :
                            q.processedFiles[state.files[k]]
                                = IF k = 1 THEN "processing" ELSE "pending"]_vars

C13_Witness ==
    /\ lastAct = "Start"
    /\ exit = "running"
    /\ runs = 2
    /\ Len(state.files) = 3
    /\ state.processingRequest.progress = 0

\* C14 (as claimed): the run record is discarded only by reset or clear
\* files, never by the processing loop.
C14_Original ==
    [][(state.processingRequest # Undefined
        /\ state'.processingRequest = Undefined)
        => lastAct' \in {"Reset", "ClearFiles"}]_vars

\* C14 (amended): the run record is discarded by reset or clear files, and
\* by the processing loop itself exactly when the loop ends by cancellation;
\* a loop that ends without cancellation keeps the record.
C14_WhoDiscardsTheRecord ==
    [][/\ (state.processingRequest # Undefined
           /\ state'.processingRequest = Undefined)
           => \/ lastAct' \in {"Reset", "ClearFiles"}
              \/ lastAct' \in {"Resolved", "Rejected"} /\ exit' \in Cancels
       /\ (lastAct' \in {"Resolved", "Rejected"} /\ exit' \in Cancels)
           => state'.processingRequest = Undefined
       /\ (lastAct' \in {"Resolved", "Rejected"} /\ exit' \notin Cancels)
           => state'.processingRequest # Undefined]_vars

C14_Witness ==
    /\ lastAct = "Resolved"
    /\ exit = "cancelApply"
    /\ state.processingRequest = Undefined
    /\ rendered.processingRequest # Undefined
    /\ Len(state.files) = 2

\* C15: Reset empties the file list and removes the run record and leaves
\* the output folder unchanged.
C15_ResetToIdle ==
    [][(lastAct' = "Reset")
        => LET t == RESET_BUTTON_CLICKED(state)
           IN /\ t.files = <<>>
              /\ t.processingRequest = Undefined
              /\ t.outputFolder = state.outputFolder
              /\ state'.files = <<>>
              /\ state'.processingRequest = Undefined
              /\ state'.outputFolder = state.outputFolder
              /\ state.processingRequest # Undefined
              /\ state.processingRequest.status = "success"]_vars

C15_Witness ==
    /\ lastAct = "Reset"
    /\ state.files = <<>>
    /\ state.processingRequest = Undefined
    /\ state.outputFolder # NoFolder
    /\ exit = "completed"
\* C20: a loop that took every item to completed or error without breaking
\* at a checkpoint ends with status success and progress 100, also when
\* the cancel flag was set while the last item was in flight and that
\* item's step then failed.
C20_AllTerminalIsSuccess ==
    (/\ JustEnded
     /\ DOMAIN emitted = Range(loopFiles)
     /\ \A id \in DOMAIN emitted : emitted[id] \in Terminal
     /\ exit \notin {"cancelHead", "cancelMask", "cancelApply", "cancelSave"})
    => /\ state.processingRequest # Undefined
       /\ state.processingRequest.status = "success"
       /\ state.processingRequest.progress = 100
C17_LumaToAlpha ==
    (applyPc = "alpha")
    => LET sum == mask.r + mask.g + mask.b
           a == canvas.data.a
       IN /\ a \in 0..255
          /\ 3 * a - sum \in {-1, 0, 1}
          /\ (mask.r = mask.g /\ mask.g = mask.b) => a = mask.r
          /\ (sum = 3 * 255) => a = 255
          /\ (sum = 0) => a = 0
          /\ (mask.r = 128 /\ mask.g = 128 /\ mask.b = 128) => a = 128

C17_Witness ==
    /\ applyPc = "alpha"
    /\ mask.r = 255
    /\ mask.g = 0
    /\ mask.b = 1
    /\ canvas.data.a = 85

\* C18: the output of applyMask has the photo's width and height whatever
\* the mask's size: the whole mask is drawn onto the whole canvas and the
\* photo is drawn at its own size.
C18_OutputHasPhotoSize ==
    (applyPc = "resolved")
    => /\ blob.width = photo.width
       /\ blob.height = photo.height
       /\ canvas.maskSrc = Rect(0, 0, mask.width, mask.height)
       /\ canvas.maskDst = Rect(0, 0, photo.width, photo.height)
       /\ canvas.photoSrc = Rect(0, 0, photo.width, photo.height)
       /\ canvas.photoDst = Rect(0, 0, photo.width, photo.height)

C18_Witness ==
    /\ applyPc = "resolved"
    /\ photo.width = 2
    /\ photo.height = 1
    /\ mask.width = 1
    /\ mask.height = 2
    /\ blob.width = 2
    /\ blob.height = 1

\* C19: the derived name is the input name without its final extension
\* (the text from the last dot on), every other character kept, followed
\* by "-clipped.png".
C19_StripsFinalExtension ==
    (newFileName # NoName /\ newFileName # Rejects)
    => newFileName
           = SubSeq(fileName, 1, LastIndexOf(fileName, ".") - 1) \o Suffix
\* C21: cancellation is polled at the checkpoints only and never interrupts
\* a step in flight: a suspended loop moves only when its awaited step
\* settles; a step that resolves with the flag set ends the loop without
\* invoking the next step and without marking the item completed; every
\* later step is entered only from the step before it, resolved, flag unset.
C21_CooperativeCheckpoints ==
    [][/\ (pc # "idle" /\ <<pc, i>>' # <<pc, i>>)
           => lastAct' \in {"Resolved", "Rejected"}
       /\ (lastAct' = "Resolved" /\ isCancellingRef)
           => /\ pc' = "idle"
              /\ i' = i
              /\ emitted' = emitted
              /\ emitted[loopFiles[i + 1]] = "processing"
              /\ exit' = CASE pc = "generateMask" -> "cancelMask"
                           [] pc = "applyMask" -> "cancelApply"
                           [] OTHER -> "cancelSave"
       /\ (pc' = "applyMask" /\ pc # "applyMask")
           => /\ pc = "generateMask" /\ i' = i
              /\ lastAct' = "Resolved" /\ ~isCancellingRef
       /\ (pc' = "save" /\ pc # "save")
           => /\ pc = "applyMask" /\ i' = i
              /\ lastAct' = "Resolved" /\ ~isCancellingRef
       /\ (lastAct' \in {"Start", "Resolved", "Rejected"}
           /\ pc' = "generateMask" /\ ~(pc = "generateMask" /\ i' = i))
           => ~isCancellingRef]_vars

C21_Witness ==
    /\ lastAct = "Resolved"
    /\ exit = "cancelMask"
    /\ i = 1
    /\ pc = "idle"
    /\ emitted[loopFiles[1]] = "completed"
    /\ emitted[loopFiles[2]] = "processing"

\* progress p is 100 * n / total rounded to the nearest integer
IsRoundedPercent(p, n, total) ==
    /\ p \in 0..100
    /\ 2 * total * p <= 200 * n + total
    /\ 2 * total * p > 200 * n - total

ProgressFromStatuses(s) ==
    (s.processingRequest # Undefined /\ Len(s.files) > 0)
    => IsRoundedPercent(s.processingRequest.progress,
                        CountOf(s.processingRequest.processedFiles, "completed")
                        + CountOf(s.processingRequest.processedFiles, "error"),
                        Len(s.files))

\* C22: while a run record exists, progress is round(100 * terminal items /
\* items) and lies in 0..100, also in the state PROCESSING_PROGRESS_CHANGED
\* leaves before the item is marked processing.
C22_ProgressFromStatuses ==
    [][/\ ProgressFromStatuses(state')
       /\ (lastAct' = "Start" /\ exit' = "running")
           => ProgressFromStatuses(PROCESSING_PROGRESS_CHANGED(
                  REMOVE_BACKGROUND_BUTTON_CLICKED(state), i'))
       /\ (lastAct' = "Resolved" /\ exit' = "running" /\ i' # i)
           => ProgressFromStatuses(PROCESSING_PROGRESS_CHANGED(
                  FILE_STATUS_CHANGED(state, loopFiles[i + 1], "completed"), i'))
       /\ (lastAct' = "Rejected" /\ exit' = "running")
           => ProgressFromStatuses(PROCESSING_PROGRESS_CHANGED(
                  FILE_STATUS_CHANGED(state, loopFiles[i + 1], "error"), i'))]_vars

C22_Witness ==
    /\ Len(state.files) = 4
    /\ isProcessing(state)
    /\ CountOf(state.processingRequest.processedFiles, "completed") = 1
    /\ CountOf(state.processingRequest.processedFiles, "error") = 1
    /\ state.processingRequest.progress = 50
    /\ pc = "generateMask"

\* C23: while a run record exists, the keys of its status map are exactly
\* the ids of the files that were listed when the run started.
C23_KeysAreTheRunsFiles ==
    [][(state'.processingRequest # Undefined)
        => /\ DOMAIN state'.processingRequest.processedFiles = Range(loopFiles')
           /\ DOMAIN state'.processingRequest.processedFiles = Range(state'.files)
           /\ (state.processingRequest # Undefined /\ lastAct' # "Start")
               => DOMAIN state'.processingRequest.processedFiles
                      = DOMAIN state.processingRequest.processedFiles]_vars

C23_Witness ==
    /\ state.processingRequest # Undefined
    /\ state.processingRequest.status = "success"
    /\ runs = 2
    /\ Len(loopFiles) = 2
    /\ DOMAIN state.processingRequest.processedFiles = {loopFiles[1], loopFiles[2]}
    /\ failed # {}
\* C24: while a run is processing the file list does not change: adding,
\* removing and clearing files are not offered.
C24_ListFrozenWhileProcessing ==
    [][/\ isProcessing(state)
           => /\ state'.files = state.files
              /\ lastAct' \notin {"FileInputChange", "Drop", "RemoveFile",
                                  "ClearFiles"}
              /\ ~Editable(rendered)
              /\ isProcessing(rendered)
       /\ (pc # "idle") => state'.files = loopFiles]_vars

C24_Witness ==
    /\ isProcessing(state)
    /\ pc = "applyMask"
    /\ i = 1
    /\ Len(state.files) = 2
    /\ nextId < MaxIds
    /\ lastAct = "Render"

\* C25: within a run currentProcessingIndex never decreases, and while the
\* run is processing it is an index of the file list.
C25_IndexMonotone ==
    [][/\ (state.processingRequest # Undefined
           /\ state'.processingRequest # Undefined
           /\ lastAct' # "Start")
           => state'.processingRequest.currentProcessingIndex
                  >= state.processingRequest.currentProcessingIndex
       /\ isProcessing(state')
           => /\ state'.processingRequest.currentProcessingIndex >= 0
              /\ state'.processingRequest.currentProcessingIndex
                     < Len(state'.files)]_vars

C25_Witness ==
    /\ isProcessing(state)
    /\ state.processingRequest.currentProcessingIndex = 2
    /\ Len(state.files) = 3
    /\ pc = "save"
    /\ runs = 2

\* C26: at most one item has status processing, and it is the item at
\* currentProcessingIndex.
C26_OneItemInFlight ==
    (state.processingRequest # Undefined)
    => /\ CountOf(state.processingRequest.processedFiles, "processing") <= 1
       /\ \A k \in 1..Len(state.files) :
              rowStatus(state, state.files[k]) = "processing"
              => k = state.processingRequest.currentProcessingIndex + 1

C26_Witness ==
    /\ isProcessing(state)
    /\ Len(state.files) = 3
    /\ state.processingRequest.currentProcessingIndex = 1
    /\ rowStatus(state, state.files[1]) = "error"
    /\ rowStatus(state, state.files[2]) = "processing"
    /\ rowStatus(state, state.files[3]) = "pending"

\* C27: statuses follow list order: every item before the current index is
\* completed or error, every item after it is pending, and an item enters
\* processing only when every earlier item is completed or error.
C27_ListOrder ==
    [][/\ isProcessing(state')
           => \A k \in 1..Len(state'.files) :
                  LET ci == state'.processingRequest.currentProcessingIndex + 1
                      st == rowStatus(state', state'.files[k])
                  IN /\ (k < ci) => st \in Terminal
                     /\ (k > ci) => st = "pending"
       /\ \A k \in 1..Len(loopFiles') :
              (emitted'[loopFiles'[k]] = "processing"
               /\ (lastAct' = "Start" \/ emitted[loopFiles'[k]] # "processing"))
              => \A j \in 1..(k - 1) : emitted'[loopFiles'[j]] \in Terminal]_vars

C27_Witness ==
    /\ isProcessing(state)
    /\ Len(state.files) = 3
    /\ state.processingRequest.currentProcessingIndex = 2
    /\ rowStatus(state, state.files[1]) = "completed"
    /\ rowStatus(state, state.files[2]) = "error"
    /\ rowStatus(state, state.files[3]) = "processing"
    /\ lastAct = "Rejected"

\* C28: an item becomes completed only when its write resolved; its steps
\* run in the order mask request, compositing, write, after the item was
\* set to processing; no step of an item is invoked after one of its steps
\* failed.
C28_StepOrder ==
    [][/\ \A id \in DOMAIN emitted' :
              (emitted'[id] = "completed"
               /\ (lastAct' = "Start" \/ emitted[id] # "completed"))
              => /\ lastAct' = "Resolved"
                 /\ pc = "save"
                 /\ id = loopFiles[i + 1]
                 /\ \A step \in {"generateMask", "applyMask", "save"} :
                        <<i, step>> \notin failed'
       /\ (pc' # "idle")
           => /\ emitted'[loopFiles'[i' + 1]] = "processing"
              /\ rowStatus(state', loopFiles'[i' + 1]) = "processing"
              /\ \A step \in {"generateMask", "applyMask", "save"} :
                     <<i', step>> \notin failed'
       /\ (pc' \in {"applyMask", "save"} /\ pc' # pc)
           => /\ lastAct' = "Resolved"
              /\ i' = i
              /\ pc = (IF pc' = "save" THEN "applyMask" ELSE "generateMask")
       /\ (lastAct' = "Rejected")
           => /\ emitted'[loopFiles[i + 1]] = "error"
              /\ pc' = "idle" \/ (pc' = "generateMask" /\ i' = i + 1)]_vars

C28_Witness ==
    /\ lastAct = "Resolved"
    /\ pc = "generateMask"
    /\ i = 2
    /\ emitted[loopFiles[1]] = "error"
    /\ emitted[loopFiles[2]] = "completed"
    /\ <<0, "applyMask">> \in failed

\* C29: failures of items never fail the run: the run status is processing
\* or success (or there is no record), and a loop that leaves ends by
\* completion or by cancellation, whatever failed.
C29_FailuresAreStatusData ==
    /\ state.processingRequest = Undefined
           \/ state.processingRequest.status \in {"processing", "success"}
    /\ exit \in {"none", "running", "completed"} \cup Cancels
    /\ (pc = "idle" /\ exit = "completed")
           => state.processingRequest = Undefined
              \/ state.processingRequest.status = "success"

C29_Witness ==
    /\ pc = "idle"
    /\ exit = "completed"
    /\ Len(loopFiles) = 3
    /\ failed = {<<0, "generateMask">>, <<1, "applyMask">>, <<2, "save">>}
    /\ state.processingRequest # Undefined
    /\ state.processingRequest.status = "success"

\* C30: the complete view is shown only when the list is not empty and
\* every listed file has status completed or error.
C30_CompleteMeansAllListedDone ==
    isCompleteApp(app)
    => /\ Len(app.files) # 0
       /\ \A id \in Range(app.files) : statusApp(app, id) \in Terminal
\* C31: in App.tsx at most one handleStart loop is suspended at a step at
\* any time.
C31_OneLoopAtATime == Cardinality(loops) <= 1

\* C32: a run begins with the cancel flag false as the loop sees it, so its
\* first item is taken into processing at the first checkpoint.
C32_FlagDoesNotLeak ==
    [][(lastAct' = "Start")
        => /\ ~isCancellingRef
           /\ exit' = "running"
           /\ pc' = "generateMask"
           /\ emitted'[loopFiles'[1]] = "processing"]_vars

\* C33: with no run record, FILE_STATUS_CHANGED, PROCESSING_PROGRESS_CHANGED,
\* PROCESSING_COMPLETED, CANCEL_BUTTON_CLICKED and CANCEL_COMPLETE leave the
\* state as it is: no record is created and the file list is not altered.
C33_NoRecordNoEffect ==
    [][(state.processingRequest = Undefined
        /\ lastAct' \in {"FILE_STATUS_CHANGED", "PROCESSING_PROGRESS_CHANGED",
                         "PROCESSING_COMPLETED", "CANCEL_BUTTON_CLICKED",
                         "CANCEL_COMPLETE"})
        => /\ state' = state
           /\ state'.processingRequest = Undefined
           /\ state'.files = state.files]_vars

C33_Witness ==
    /\ lastAct = "PROCESSING_COMPLETED"
    /\ state.processingRequest = Undefined
    /\ Len(state.files) = 2
    /\ state.outputFolder # NoFolder
====
